---- MODULE Spec2Model ----
(***************************************************************************)
(* yaradec: a decompiler for compiled YARA rule files (yaradec.py,         *)
(* yara_const.py).  The model keeps the image as a sequence of bytes and   *)
(* translates the struct layouts, the relocation pass, the bytecode walk   *)
(* (parse_code / get_code), the rule assembly (get_rules) and the output   *)
(* loop of main.                                                           *)
(*                                                                         *)
(* Numbers.  TLC's integers are 32 bits wide, the file's are 32 and 64     *)
(* bits wide.  A value read from the image is kept as its little-endian    *)
(* bytes; where the program uses one as an offset, Off() gives the integer *)
(* when it is below 2^24 and OutOfImage (2^24) otherwise.  Every image of  *)
(* the model is shorter than 2^24 bytes, so every offset Off() caps is     *)
(* beyond the buffer, as the uncapped one is.                              *)
(*                                                                         *)
(* Errors.  An operation that can raise returns [err, val]; err is the     *)
(* Python exception class raised, "none" when it returns normally.         *)
(***************************************************************************)
EXTENDS Integers, Sequences, FiniteSets, TLC

VARIABLES
    magic,      \* file header: the 4-byte magic, as read by main
    version,    \* file header: the version byte
    size,       \* file header: the declared image size (self.size)
    body,       \* the bytes of the file after the 9-byte file header
    data,       \* self.data: the image buffer
    phase,      \* where the run is: "main", "parse", "rules", "print", "done", "failed"
    error,      \* the exception class that ended the run, "none" otherwise
    code_start, \* self.code_start
    code,       \* self.code: the OrderedDict ip -> instruction, as the sequence of its items
    todo,       \* parse_code's work stack
    decodes,    \* history: the addresses get_code decoded, in order, repeats kept
    rules,      \* get_rules' list of rules (each a YaraRule's data dict)
    cur_rule,   \* get_rules' cur_rule: 0 for None, else the index in rules of the dict it aliases
    pos,        \* how many items of self.code.values() get_rules has taken
    printed,    \* the rule texts main has printed
    pass1       \* relocate() applied twice: the buffer after the first application, <<>> before it

vars == <<magic, version, size, body, data, phase, error, code_start, code, todo,
          decodes, rules, cur_rule, pos, printed, pass1>>

----------------------------------------------------------------------------
(* Bytes and struct                                                        *)

OutOfImage == 256 * 256 * 256

Ok(v) == [err |-> "none", val |-> v]

Raise(e) == [err |-> e, val |-> <<>>]

\* buf[idx:idx + n] of Python, idx a 0-based offset: short or empty past the end
Slice(buf, idx, n) ==
    IF idx >= Len(buf) THEN <<>>
    ELSE SubSeq(buf, idx + 1, IF idx + n > Len(buf) THEN Len(buf) ELSE idx + n)

\* a little-endian value as an offset
Off(b) ==
    IF \E i \in 4..Len(b) : b[i] # 0 THEN OutOfImage
    ELSE b[1] + 256 * b[2] + 65536 * b[3]

\* the little-endian bytes of a small number, n bytes wide
RECURSIVE Enc(_, _)
Enc(v, n) == IF n = 0 THEN <<>> ELSE <<v % 256>> \o Enc(v \div 256, n - 1)

\* unpack2(buf, idx, fmt): does a structure of calcsize(fmt) = n bytes fit at idx
Fits(buf, idx, n) == Len(Slice(buf, idx, n)) = n

----------------------------------------------------------------------------
(* Relocator                                                               *)

Terminator == <<255, 255, 255, 255>>

UndefinedPtr == <<218, 186, 250, 255>>

\* buf[reloc:reloc + 4] = b'\0\0\0\0', the four bytes being in the buffer
Zeroed(buf, reloc) ==
    SubSeq(buf, 1, reloc) \o <<0, 0, 0, 0>> \o SubSeq(buf, reloc + 5, Len(buf))

PatchedInverted(buf, reloc) ==
    IF Slice(buf, reloc, 4) # UndefinedPtr THEN Zeroed(buf, reloc) ELSE buf

\* the word at reloc becomes zero when it holds the undefined pointer
Patched(buf, reloc) ==
    IF Slice(buf, reloc, 4) = UndefinedPtr THEN Zeroed(buf, reloc) ELSE buf

\* relocate(): val is <<buffer, rest of the stream>>; "struct.error" and
\* "bad relocs" are the two ways it returns False
RECURSIVE Relocate(_, _, _)
Relocate(buf, sz, stream) ==
    IF Len(stream) < 4 THEN Raise("struct.error")
    ELSE LET reloc == SubSeq(stream, 1, 4)
             rest  == SubSeq(stream, 5, Len(stream))
         IN  IF reloc = Terminator THEN Ok(<<buf, rest>>)
             ELSE IF Off(reloc) > sz - 4 THEN Raise("bad relocs")
             ELSE IF ~Fits(buf, Off(reloc), 4) THEN Raise("struct.error")
             ELSE Relocate(Patched(buf, Off(reloc)), sz, rest)

----------------------------------------------------------------------------
(* Strings                                                                 *)

\* Python's None and a str, the str kept as its UTF-8 bytes
None == [none |-> TRUE, s |-> <<>>]

Str(b) == [none |-> FALSE, s |-> b]

Cont(b) == b >= 128 /\ b <= 191

\* bytes.decode('utf-8') succeeds
RECURSIVE ValidUtf8(_)
ValidUtf8(b) ==
    IF b = <<>> THEN TRUE
    ELSE LET c == b[1]
             n == Len(b)
         IN  IF c < 128 THEN ValidUtf8(Tail(b))
             ELSE IF c >= 194 /\ c <= 223
                  THEN n >= 2 /\ Cont(b[2]) /\ ValidUtf8(SubSeq(b, 3, n))
             ELSE IF c >= 224 /\ c <= 239
                  THEN /\ n >= 3 /\ Cont(b[2]) /\ Cont(b[3])
                       /\ (c = 224 => b[2] >= 160)
                       /\ (c = 237 => b[2] <= 159)
                       /\ ValidUtf8(SubSeq(b, 4, n))
             ELSE IF c >= 240 /\ c <= 244
                  THEN /\ n >= 4 /\ Cont(b[2]) /\ Cont(b[3]) /\ Cont(b[4])
                       /\ (c = 240 => b[2] >= 144)
                       /\ (c = 244 => b[2] <= 143)
                       /\ ValidUtf8(SubSeq(b, 5, n))
             ELSE FALSE

Decode(b) == IF ValidUtf8(b) THEN Ok(Str(b)) ELSE Raise("UnicodeDecodeError")

\* buf[addr:].split(b'\0')[0]
UpToNul(buf, addr) ==
    LET tail == Slice(buf, addr, Len(buf))
        nuls == {i \in 1..Len(tail) : tail[i] = 0}
        stop == IF nuls = {} THEN Len(tail) + 1
                ELSE CHOOSE i \in nuls : \A j \in nuls : i <= j
    IN  SubSeq(tail, 1, stop - 1)

get_raw_str(buf, addr) ==
    IF addr = 0 THEN Ok(None) ELSE Decode(UpToNul(buf, addr))

\* '{:X}'.format(x) of a byte, as ASCII
HexDigit(d) == IF d < 10 THEN 48 + d ELSE 55 + d

HexByte(x) == IF x < 16 THEN <<HexDigit(x)>> ELSE <<HexDigit(x \div 16), HexDigit(x % 16)>>

\* ' '.join(['{:X}'.format(x) for x in b])
RECURSIVE HexJoin(_)
HexJoin(b) ==
    IF b = <<>> THEN <<>>
    ELSE IF Len(b) = 1 THEN HexByte(b[1])
    ELSE HexByte(b[1]) \o <<32>> \o HexJoin(Tail(b))

\* '{:X}'.format(x) of a little-endian value
RECURSIVE HexInt(_)
HexInt(q) ==
    IF q = <<>> THEN <<48>>
    ELSE IF q[Len(q)] = 0 THEN HexInt(SubSeq(q, 1, Len(q) - 1))
    ELSE IF Len(q) = 1 THEN HexByte(q[1])
    ELSE HexInt(SubSeq(q, 2, Len(q))) \o
         (IF q[1] < 16 /\ \E i \in 2..Len(q) : q[i] # 0 THEN <<48>> ELSE <<>>) \o HexByte(q[1])

----------------------------------------------------------------------------
(* Record layouts (struct formats) and flags                               *)

HeaderSize == 44
StringSize == 32
MetaSize == 32
NsSize == 132
RuleSize == 172
ImmSize == 8

\* flag bit k of a little-endian flags word
Bit(w, k) == (w[(k \div 8) + 1] \div (2 ^ (k % 8))) % 2 = 1

IsZero(w) == \A i \in 1..Len(w) : w[i] = 0

StrHexadecimal(f) == Bit(f, 1)
StrNoCase(f) == Bit(f, 2)
StrWide(f) == Bit(f, 4)
StrRegexp(f) == Bit(f, 5)
StrFullWord(f) == Bit(f, 7)
StrLiteral(f) == Bit(f, 10)
RulePrivate(f) == Bit(f, 0)

\* the u32 at idx of a structure known to fit
U32(buf, idx) == Slice(buf, idx, 4)

----------------------------------------------------------------------------
(* RecordReader                                                            *)

\* get_string(addr): val is None (NoString) or the descriptor dict
NoString == [none |-> TRUE]

get_string(buf, addr) ==
    IF ~Fits(buf, addr, StringSize) THEN Raise("struct.error")
    ELSE LET g_flags    == U32(buf, addr)
             length     == U32(buf, addr + 4)
             identifier == U32(buf, addr + 8)
             str_data   == U32(buf, addr + 16)
             chained_to == U32(buf, addr + 24)
         IN  IF IsZero(g_flags) \/ length[4] # 0 THEN Ok(NoString)
             ELSE IF ~Fits(buf, Off(str_data), Off(length)) THEN Raise("struct.error")
             ELSE LET str_str == Slice(buf, Off(str_data), Off(length))
                      id      == get_raw_str(buf, Off(identifier))
                      text    == IF StrHexadecimal(g_flags) /\ StrLiteral(g_flags)
                                 THEN Ok(Str(<<123>> \o HexJoin(str_str) \o <<125>>))
                                 ELSE IF StrLiteral(g_flags) THEN Decode(str_str)
                                 ELSE Ok(None)
                  IN  IF id.err # "none" THEN Raise(id.err)
                      ELSE IF text.err # "none" THEN Raise(text.err)
                      ELSE Ok([none |-> FALSE, flags |-> g_flags, length |-> length,
                               chained_to |-> chained_to, identifier |-> id.val,
                               str |-> text.val])

\* an OrderedDict as the sequence of its <<key, value>> items: d[k] = v
DictSet(d, k, v) ==
    IF \E i \in 1..Len(d) : d[i][1] = k
    THEN [i \in 1..Len(d) |-> IF d[i][1] = k THEN <<k, v>> ELSE d[i]]
    ELSE Append(d, <<k, v>>)

MetaNull == <<0, 0, 0, 0>>
MetaInteger == <<1, 0, 0, 0>>
MetaString == <<2, 0, 0, 0>>
MetaBoolean == <<3, 0, 0, 0>>

\* get_meta(addr), from entry i on, metadatas being what the loop has so far
RECURSIVE MetaLoop(_, _, _, _)
MetaLoop(buf, addr, i, metadatas) ==
    LET at == addr + i * MetaSize
    IN  IF ~Fits(buf, at, MetaSize) THEN Raise("struct.error")
        ELSE LET type == U32(buf, at)
                 m1   == U32(buf, at + 8)
                 m2   == U32(buf, at + 16)
                 m3   == U32(buf, at + 24)
             IN  IF type \notin {MetaNull, MetaInteger, MetaString, MetaBoolean}
                 THEN Raise("ValueError")
                 ELSE IF type = MetaNull THEN Ok(metadatas)
                 ELSE LET string == IF type = MetaString THEN get_raw_str(buf, Off(m3))
                                    ELSE Ok(None)
                          name   == get_raw_str(buf, Off(m2))
                          entry  == [type |-> type, string |-> string.val,
                                     integer |-> m1, boolean |-> ~IsZero(m1)]
                      IN  IF string.err # "none" THEN Raise(string.err)
                          ELSE IF name.err # "none" THEN Raise(name.err)
                          ELSE MetaLoop(buf, addr, i + 1, DictSet(metadatas, name.val, entry))

get_meta(buf, addr) == MetaLoop(buf, addr, 0, <<>>)

get_ns(buf, addr) ==
    IF ~Fits(buf, addr, NsSize) THEN Raise("struct.error")
    ELSE LET ns == get_raw_str(buf, Off(U32(buf, addr + 128)))
         IN  IF ns.err # "none" THEN Raise(ns.err)
             ELSE IF ns.val.none \/ ns.val.s = <<>> THEN Ok(Str(<<>>))
             ELSE Ok(Str(ns.val.s \o <<58>>))

\* get_rule(addr): the dict, as a record with the set of the keys it holds
get_rule(buf, addr) ==
    IF ~Fits(buf, addr, RuleSize) THEN Raise("struct.error")
    ELSE LET flags      == U32(buf, addr)
             identifier == U32(buf, addr + 136)
             tags       == U32(buf, addr + 144)
             meta       == U32(buf, addr + 152)
             ns         == U32(buf, addr + 168)
             r_id   == IF IsZero(identifier) THEN Ok(None) ELSE get_raw_str(buf, Off(identifier))
             r_tags == IF IsZero(tags) THEN Ok(None) ELSE get_raw_str(buf, Off(tags))
             r_meta == IF IsZero(meta) THEN Ok(<<>>) ELSE get_meta(buf, Off(meta))
             r_ns   == IF IsZero(ns) THEN Ok(None) ELSE get_ns(buf, Off(ns))
         IN  IF r_id.err # "none" THEN Raise(r_id.err)
             ELSE IF r_tags.err # "none" THEN Raise(r_tags.err)
             ELSE IF r_meta.err # "none" THEN Raise(r_meta.err)
             ELSE IF r_ns.err # "none" THEN Raise(r_ns.err)
             ELSE Ok([keys |-> {"flags"}
                               \cup (IF IsZero(identifier) THEN {} ELSE {"identifier"})
                               \cup (IF IsZero(tags) THEN {} ELSE {"tags"})
                               \cup (IF IsZero(meta) THEN {} ELSE {"metadata"})
                               \cup (IF IsZero(ns) THEN {} ELSE {"ns"}),
                      flags |-> flags, identifier |-> r_id.val, tags |-> r_tags.val,
                      metadata |-> r_meta.val, ns |-> r_ns.val,
                      code |-> <<>>, strings |-> <<>>])

----------------------------------------------------------------------------
(* CodeWalker                                                              *)

OP_AND == 1
OP_PUSH == 13
OP_INIT_RULE == 28
OP_JFALSE == 44
OP_HALT == 255

\* the values of the Opcode enum
Opcodes == (0..45) \cup (100..110) \cup (120..130) \cup (140..145) \cup (240..251) \cup {OP_HALT}

\* OP_CLEAR_M, OP_ADD_M, OP_INCR_M, OP_PUSH_M, OP_POP_M, OP_SWAPUNDEF, OP_INIT_RULE,
\* OP_PUSH_RULE, OP_MATCH_RULE, OP_OBJ_LOAD, OP_OBJ_FIELD, OP_CALL, OP_IMPORT, OP_INT_TO_DBL
ImmOps == {31, 32, 30, 34, 33, 35, OP_INIT_RULE, 27, 29, 16, 18, 15, 42, 11}

\* OP_JNUNDEF, OP_JLE, OP_JTRUE, OP_JFALSE
JumpOps == {36, 37, 45, OP_JFALSE}

\* an argument: the raw immediate (isinstance(x, int)) or a string descriptor (dict)
IntArg(q) == [isint |-> TRUE, v |-> q]

StrArg(d) == [isint |-> FALSE, v |-> d]

Keys(codemap) == {codemap[i].ip : i \in 1..Len(codemap)}

RecordedAny(codemap, ip) == codemap # <<>>

RecordedNever(codemap, ip) == FALSE

\* self.code.get(ip): the instruction dicts are never empty, so truthy when present
Recorded(codemap, ip) == ip \in Keys(codemap)

OpcodeAtPadded(buf, ip) == IF ~Fits(buf, ip, 1) THEN Ok(0) ELSE Ok(buf[ip + 1])

\* unpack2(buf, ip, '<B')[0]
OpcodeAt(buf, ip) == IF ~Fits(buf, ip, 1) THEN Raise("struct.error") ELSE Ok(buf[ip + 1])

\* self.code[ip] = data, the OrderedDict as the sequence of its values (each with its key)
CodeSet(codemap, instr) ==
    IF \E i \in 1..Len(codemap) : codemap[i].ip = instr.ip
    THEN [i \in 1..Len(codemap) |-> IF codemap[i].ip = instr.ip THEN instr ELSE codemap[i]]
    ELSE Append(codemap, instr)

\* the successors of a conditional jump at ip with operand q
JumpNext(ip, q) == <<Off(q), ip + 8>>

\* the argument of OP_PUSH with immediate q: the try/except around get_string
PushArg(buf, q) ==
    LET string == get_string(buf, Off(q))
    IN  IF string.err = "struct.error" THEN Ok(IntArg(q))
        ELSE IF string.err # "none" THEN Raise(string.err)
        ELSE IF string.val.none THEN Ok(IntArg(q))
        ELSE Ok(StrArg(string.val))

\* get_code(buf, ip): val is [next, code] (the list returned, self.code afterwards)
get_code(buf, codemap, ip) ==
    IF Recorded(codemap, ip) THEN Ok([next |-> <<>>, code |-> codemap])
    ELSE IF OpcodeAt(buf, ip).err # "none" THEN Raise(OpcodeAt(buf, ip).err)
    ELSE LET opcode == OpcodeAt(buf, ip).val
             imm    == Slice(buf, ip + 1, ImmSize)
             Done(next, args) ==
                 Ok([next |-> next,
                     code |-> CodeSet(codemap, [ip |-> ip, next |-> next,
                                                opcode |-> opcode, args |-> args])])
         IN  IF opcode \notin Opcodes THEN Raise("ValueError")
             ELSE IF opcode = OP_HALT THEN Done(<<>>, <<>>)
             ELSE IF opcode \in ImmOps
                  THEN IF Len(imm) # ImmSize THEN Raise("struct.error")
                       ELSE Done(<<ip + 8 + 1>>, <<IntArg(imm)>>)
             ELSE IF opcode \in JumpOps
                  THEN IF Len(imm) # ImmSize THEN Raise("struct.error")
                       ELSE Done(JumpNext(ip, imm), <<>>)
             ELSE IF opcode = OP_PUSH
                  THEN IF Len(imm) # ImmSize THEN Raise("struct.error")
                       ELSE IF PushArg(buf, imm).err # "none" THEN Raise(PushArg(buf, imm).err)
                       ELSE Done(<<ip + 8 + 1>>, <<PushArg(buf, imm).val>>)
             ELSE Done(<<ip + 1>>, <<>>)

----------------------------------------------------------------------------
(* YaraRule.get_rule: the text of a rule, kept as the parts it is made of  *)

\* '{}'.format(x) of a str or None
Format(x) == IF x.none THEN <<78, 111, 110, 101>> ELSE x.s

\* __get_strings: data['strings'] after the loop over data['code'] from item i on
RECURSIVE GetStrings(_, _, _)
GetStrings(instrs, i, strings) ==
    IF i > Len(instrs) THEN strings
    ELSE LET val == instrs[i]
         IN  IF val.opcode = OP_PUSH /\ ~val.args[1].isint
             THEN GetStrings(instrs, i + 1,
                             DictSet(strings, val.args[1].v.identifier, val.args[1].v))
             ELSE GetStrings(instrs, i + 1, strings)

MetaLine(item) ==
    [name |-> Format(item[1]), type |-> item[2].type,
     value |-> IF item[2].type = MetaString THEN <<34>> \o Format(item[2].string) \o <<34>>
               ELSE IF item[2].type = MetaInteger THEN item[2].integer
               ELSE IF item[2].boolean THEN <<84, 114, 117, 101>>
               ELSE <<70, 97, 108, 115, 101>>]

StringLine(string) ==
    [identifier |-> Format(string.identifier),
     value |-> IF StrHexadecimal(string.flags) /\ StrLiteral(string.flags)
               THEN <<32, 61, 32>> \o Format(string.str)
               ELSE IF StrLiteral(string.flags)
               THEN <<32, 61, 32, 34>> \o Format(string.str) \o <<34>>
               ELSE <<>>,
     unrecoverable |-> ~StrLiteral(string.flags),
     fullword |-> StrFullWord(string.flags), wide |-> StrWide(string.flags),
     nocase |-> StrNoCase(string.flags), regex |-> StrRegexp(string.flags)]

AsmArg(x) == IF x.isint THEN <<48, 120>> \o HexInt(x.v) ELSE Format(x.v.identifier)

AsmLine(val) ==
    [opcode |-> val.opcode, args |-> [j \in 1..Len(val.args) |-> AsmArg(val.args[j])]]

\* the 'rule {ns}{identifier} {{' line: KeyError when the dict lacks either key
RuleLine(rule) ==
    IF "ns" \notin rule.keys \/ "identifier" \notin rule.keys THEN Raise("KeyError")
    ELSE Ok(Format(rule.ns) \o Format(rule.identifier))

Render(rule) ==
    LET strings == GetStrings(rule.code, 1, rule.strings)
    IN  IF RuleLine(rule).err # "none" THEN Raise(RuleLine(rule).err)
        ELSE Ok([private |-> RulePrivate(rule.flags),
                 rule |-> RuleLine(rule).val,
                 meta |-> [j \in 1..Len(rule.metadata) |-> MetaLine(rule.metadata[j])],
                 strings |-> [j \in 1..Len(strings) |-> StringLine(strings[j][2])],
                 asm |-> [j \in 1..Len(rule.code) |-> AsmLine(rule.code[j])]])

----------------------------------------------------------------------------
(* The files the runs start from                                           *)

MaxCells == 3

\* overwrite buf from offset off on with bytes b
Put(buf, off, b) ==
    SubSeq(buf, 1, off) \o b \o SubSeq(buf, off + Len(b) + 1, Len(buf))

RECURSIVE PutAll(_, _)
PutAll(buf, puts) ==
    IF puts = <<>> THEN buf ELSE PutAll(Put(buf, puts[1][1], puts[1][2]), Tail(puts))

\* Where the records of the image lie.  The reserved slots and the padding of a
\* rule record are read by nothing, so the strings, the string descriptors, the
\* metadata and the second rule record lie inside the first rule record.
R1At == HeaderSize
R2At == R1At + 4
NsAt == R1At
Name1At == R1At + 8
Name2At == R1At + 12
NsNameAt == R1At + 16
IdAt == R1At + 20
TextAt == R1At + 24
BadTextAt == R1At + 28
KeyAt == R1At + 32
S1At == R1At + 36
S2At == S1At + StringSize
MetaAt == S2At + StringSize
CodeAt == R2At + RuleSize

UNDEFINED == <<255, 218, 186, 250, 218, 186, 250, 255>>

\* header, two rule records (the second with the undefined pointer as its
\* namespace), a namespace, two LITERAL string descriptors (the second one's
\* text is the byte 0xFF, no UTF-8), one INTEGER metadata entry and its terminator
BaseImage ==
    PutAll([i \in 1..CodeAt |-> 0],
      << <<0, Enc(11, 4)>>, <<8, Enc(R1At, 4)>>, <<24, Enc(CodeAt, 4)>>,
         <<R1At, Enc(1, 4)>>, <<R1At + 136, Enc(Name1At, 4)>>,
         <<R1At + 152, Enc(MetaAt, 4)>>, <<R1At + 168, Enc(NsAt, 4)>>,
         <<R2At + 136, Enc(Name2At, 4)>>, <<R2At + 168, UndefinedPtr>>,
         <<NsAt + 128, Enc(NsNameAt, 4)>>,
         <<Name1At, <<114, 49>> >>, <<Name2At, <<114, 50>> >>, <<NsNameAt, <<110>> >>,
         <<IdAt, <<36, 97>> >>, <<TextAt, <<97, 98>> >>, <<BadTextAt, <<255>> >>,
         <<KeyAt, <<107>> >>,
         <<S1At, Enc(1024, 4)>>, <<S1At + 4, Enc(2, 4)>>, <<S1At + 8, Enc(IdAt, 4)>>,
         <<S1At + 16, Enc(TextAt, 4)>>,
         <<S2At, Enc(1024, 4)>>, <<S2At + 4, Enc(1, 4)>>, <<S2At + 8, Enc(IdAt, 4)>>,
         <<S2At + 16, Enc(BadTextAt, 4)>>,
         <<MetaAt, MetaInteger>>, <<MetaAt + 8, Enc(42, 4)>>, <<MetaAt + 16, Enc(KeyAt, 4)>> >>)

Op(o) == [op |-> o, imm |-> <<>>]

OpImm(o, q) == [op |-> o, imm |-> q]

\* the instructions a program is drawn from
Cells ==
    { Op(OP_HALT), Op(OP_AND), Op(46),
      OpImm(OP_INIT_RULE, Enc(R1At, 8)), OpImm(OP_INIT_RULE, Enc(R2At, 8)),
      OpImm(OP_PUSH, Enc(S1At, 8)), OpImm(OP_PUSH, Enc(S2At, 8)), OpImm(OP_PUSH, UNDEFINED),
      OpImm(OP_JFALSE, Enc(CodeAt, 8)), OpImm(OP_JFALSE, Enc(CodeAt + 9, 8)),
      OpImm(OP_JFALSE, Enc(CodeAt + 10, 8)),
      OpImm(OP_JFALSE, Enc(BadTextAt, 8)), OpImm(OP_JFALSE, UNDEFINED) }

Programs == UNION {[1..n -> Cells] : n \in 1..MaxCells}

RECURSIVE Flat(_)
Flat(prog) == IF prog = <<>> THEN <<>> ELSE <<prog[1].op>> \o prog[1].imm \o Flat(Tail(prog))

Image(prog) == BaseImage \o Flat(prog)

\* relocation tables: the one naming the undefined namespace pointer, the empty
\* one, one with an offset beyond the image, one without its terminator
GoodTable == Enc(R2At + 168, 4) \o Terminator
EmptyTable == Terminator
BadTable == <<0, 0, 0, 1>> \o Terminator
CutTable == Enc(R2At + 168, 4)

YARA == <<89, 65, 82, 65>>
XARA == <<88, 65, 82, 65>>

\* every program under a supported header and the table the image was written
\* with; two programs under every header and every table
Files ==
    {[magic |-> YARA, version |-> 11, prog |-> p, table |-> GoodTable] : p \in Programs}
    \cup
    {[magic |-> m, version |-> v, prog |-> <<OpImm(OP_INIT_RULE, Enc(r, 8)), Op(OP_HALT)>>,
      table |-> t] :
        m \in {YARA, XARA}, v \in {10, 11, 12}, r \in {R1At, R2At},
        t \in {GoodTable, EmptyTable, BadTable, CutTable}}

----------------------------------------------------------------------------
(* The run of main                                                         *)

Init ==
    \E f \in Files :
        /\ magic = f.magic
        /\ version = f.version
        /\ size = Len(Image(f.prog))
        /\ body = Image(f.prog) \o f.table
        /\ data = <<>>
        /\ phase = "main"
        /\ error = "none"
        /\ code_start = 0
        /\ code = <<>>
        /\ todo = <<>>
        /\ decodes = <<>>
        /\ rules = <<>>
        /\ cur_rule = 0
        /\ pos = 0
        /\ printed = <<>>
        /\ pass1 = <<>>

Fail(e) ==
    /\ phase' = "failed"
    /\ error' = e

\* decoders.get(version)
Supported(v) == v \in {11, 12}

\* main up to the call of get_rules: the file header, YaraDec_v11.__init__
\* (relocate, the image header), and parse_code's first lines
Main ==
    /\ phase = "main"
    /\ LET image  == SubSeq(body, 1, IF size > Len(body) THEN Len(body) ELSE size)
           stream == SubSeq(body, Len(image) + 1, Len(body))
           reloc  == Relocate(image, size, stream)
       IN  IF magic # YARA \/ ~Supported(version)
           THEN Fail("SystemExit") /\ UNCHANGED <<data, code_start, todo>>
           ELSE IF reloc.err # "none"
           THEN Fail("RuntimeError") /\ UNCHANGED <<data, code_start, todo>>
           ELSE IF ~Fits(reloc.val[1], 0, HeaderSize)
           THEN Fail("struct.error") /\ data' = reloc.val[1] /\ UNCHANGED <<code_start, todo>>
           ELSE /\ data' = reloc.val[1]
                /\ code_start' = Off(U32(reloc.val[1], 24))
                /\ todo' = <<Off(U32(reloc.val[1], 24))>>
                /\ phase' = "parse"
                /\ UNCHANGED error
    /\ UNCHANGED <<magic, version, size, body, code, decodes, rules, cur_rule, pos,
                   printed, pass1>>

PopFirst(stack) == [ip |-> stack[1], rest |-> Tail(stack)]

\* todo.pop()
Pop(stack) == [ip |-> stack[Len(stack)], rest |-> SubSeq(stack, 1, Len(stack) - 1)]

\* one turn of parse_code's loop: ip = todo.pop(); todo += self.get_code(buf, ip)
ParseStep ==
    /\ phase = "parse"
    /\ todo # <<>>
    /\ LET ip == Pop(todo).ip
           r  == get_code(data, code, ip)
       IN  IF r.err # "none"
           THEN /\ Fail(r.err)
                /\ todo' = Pop(todo).rest
                /\ decodes' = IF Recorded(code, ip) THEN decodes ELSE Append(decodes, ip)
                /\ UNCHANGED code
           ELSE /\ todo' = Pop(todo).rest \o r.val.next
                /\ code' = r.val.code
                /\ decodes' = IF Recorded(code, ip) THEN decodes ELSE Append(decodes, ip)
                /\ phase' = IF todo' = <<>> THEN "rules" ELSE "parse"
                /\ UNCHANGED error
    /\ UNCHANGED <<magic, version, size, body, data, code_start, rules, cur_rule, pos,
                   printed, pass1>>

InsertCode(rs, cur, val) ==
    [rs EXCEPT ![cur] = [@ EXCEPT !.code = <<val>> \o @]]

\* cur_rule['code'].append(val), cur_rule being the dict rules[cur] holds
AppendCode(rs, cur, val) ==
    [rs EXCEPT ![cur] = [@ EXCEPT !.code = Append(@, val)]]

\* one turn of get_rules' loop over self.code.values(), the return included
AssembleStep ==
    /\ phase = "rules"
    /\ pos < Len(code)
    /\ LET val  == code[pos + 1]
           rule == get_rule(data, Off(val.args[1].v))
           Leave(rs) == IF rs = <<>> THEN "done" ELSE "print"
       IN  IF val.opcode = OP_INIT_RULE
           THEN IF rule.err # "none"
                THEN Fail(rule.err) /\ UNCHANGED <<rules, cur_rule>>
                ELSE /\ rules' = AppendCode(Append(rules, rule.val), Len(rules) + 1, val)
                     /\ cur_rule' = Len(rules) + 1
                     /\ phase' = IF pos + 1 = Len(code) THEN "print" ELSE "rules"
                     /\ UNCHANGED error
           ELSE IF val.opcode = OP_HALT
                THEN /\ phase' = Leave(rules)
                     /\ UNCHANGED <<rules, cur_rule, error>>
           ELSE IF cur_rule = 0
                THEN Fail("TypeError") /\ UNCHANGED <<rules, cur_rule>>
                ELSE /\ rules' = AppendCode(rules, cur_rule, val)
                     /\ phase' = IF pos + 1 = Len(code) THEN Leave(rules) ELSE "rules"
                     /\ UNCHANGED <<cur_rule, error>>
    /\ pos' = pos + 1
    /\ UNCHANGED <<magic, version, size, body, data, code_start, code, todo, decodes,
                   printed, pass1>>

\* one turn of main's loop: print(rule.get_rule())
PrintStep ==
    /\ phase = "print"
    /\ Len(printed) < Len(rules)
    /\ LET text == Render(rules[Len(printed) + 1])
       IN  IF text.err # "none"
           THEN Fail(text.err) /\ UNCHANGED printed
           ELSE /\ printed' = Append(printed, text.val)
                /\ phase' = IF Len(printed') = Len(rules) THEN "done" ELSE "print"
                /\ UNCHANGED error
    /\ UNCHANGED <<magic, version, size, body, data, code_start, code, todo, decodes,
                   rules, cur_rule, pos, pass1>>

Next == Main \/ ParseStep \/ AssembleStep \/ PrintStep

Spec == Init /\ [][Next]_vars

\* the interpreter runs the loops on: no step that can be taken is put off for ever
\* the program has not ended; Next is enabled exactly then
Running == phase \notin {"done", "failed"}

\* the interpreter keeps executing a running program.  This is WF_vars(Next)
\* with ENABLED <<Next>>_vars written out as Running.
Fairness == []<>(~Running) \/ []<><<Next>>_vars

FairSpec == Spec /\ Fairness

----------------------------------------------------------------------------
(* The relocator applied twice                                             *)

RelocLen == 5
MaxRelocs == 2

\* the bytes of the undefined pointer; the zero bytes are the relocator's
RelocBytes == {UndefinedPtr[i] : i \in 1..4}

\* tables of offsets the relocator accepts, entries repeated or overlapping, and
\* two it rejects: an offset beyond size - 4, a table without its terminator
RECURSIVE Words(_)
Words(t) == IF t = <<>> THEN <<>> ELSE Enc(t[1], 4) \o Words(Tail(t))

RelocTables ==
    {Words(t) \o Terminator : t \in UNION {[1..n -> 0..(RelocLen - 4)] : n \in 0..MaxRelocs}}
    \cup {Enc(RelocLen - 3, 4) \o Terminator, Enc(0, 4)}

RelocInit ==
    \E b \in [1..RelocLen -> RelocBytes], t \in RelocTables :
        /\ magic = YARA
        /\ version = 11
        /\ size = RelocLen
        /\ body = t
        /\ data = b
        /\ phase = "reloc"
        /\ error = "none"
        /\ code_start = 0
        /\ code = <<>>
        /\ todo = <<>>
        /\ decodes = <<>>
        /\ rules = <<>>
        /\ cur_rule = 0
        /\ pos = 0
        /\ printed = <<>>
        /\ pass1 = <<>>

\* relocate() on the buffer as loaded
FirstPass ==
    /\ phase = "reloc"
    /\ LET r == Relocate(data, size, body)
       IN  IF r.err # "none"
           THEN Fail("RuntimeError") /\ UNCHANGED <<data, pass1>>
           ELSE /\ data' = r.val[1]
                /\ pass1' = r.val[1]
                /\ phase' = "reloc1"
                /\ UNCHANGED error
    /\ UNCHANGED <<magic, version, size, body, code_start, code, todo, decodes, rules,
                   cur_rule, pos, printed>>

\* relocate() again, with the same table, on the buffer the first pass left
SecondPass ==
    /\ phase = "reloc1"
    /\ LET r == Relocate(data, size, body)
       IN  IF r.err # "none"
           THEN Fail("RuntimeError") /\ UNCHANGED data
           ELSE /\ data' = r.val[1]
                /\ phase' = "reloc2"
                /\ UNCHANGED error
    /\ UNCHANGED <<magic, version, size, body, code_start, code, todo, decodes, rules,
                   cur_rule, pos, printed, pass1>>

RelocNext == FirstPass \/ SecondPass

RelocSpec == RelocInit /\ [][RelocNext]_vars

----------------------------------------------------------------------------
(* Properties                                                              *)

Ips(instrs) == [i \in 1..Len(instrs) |-> instrs[i].ip]

Opcodes_(instrs) == [i \in 1..Len(instrs) |-> instrs[i].opcode]

\* parse_code has returned: get_rules is past its first line
TraversalComplete == phase \in {"rules", "print", "done"} \/ (phase = "failed" /\ pos > 0)

\* C1: once parse_code has returned, every address in the successor list of a
\* recorded instruction is a key of the instruction map.
C1_ReachabilityClosure ==
    TraversalComplete =>
        \A i \in 1..Len(code) : \A j \in 1..Len(code[i].next) :
            code[i].next[j] \in Keys(code)

\* a completed traversal that recorded a conditional jump and both its successors
C1_Witness ==
    /\ phase = "done"
    /\ \E i \in 1..Len(code) :
          /\ code[i].opcode \in JumpOps
          /\ code[i].next[1] # code[i].next[2]
          /\ {code[i].next[1], code[i].next[2]} \subseteq Keys(code)

\* C2 as written: every recorded address a has code_start <= a < image size.
C2_WithinCodeRegion ==
    \A i \in 1..Len(code) : code_start <= code[i].ip /\ code[i].ip < size

\* C2 amended: every recorded address a has 0 <= a < image size; the start of
\* the code is no lower bound.
C2_WithinImage ==
    \A i \in 1..Len(code) : 0 <= code[i].ip /\ code[i].ip < Len(data) /\ Len(data) = size

\* the taken target of a conditional jump, below code_start, is recorded
C2_Witness ==
    \E i, j \in 1..Len(code) :
        /\ code[i].opcode \in JumpOps
        /\ code[j].ip = code[i].next[1]
        /\ code[j].ip < code_start

\* the code of all the rules, one after the other
RECURSIVE AllCode(_)
AllCode(rs) == IF rs = <<>> THEN <<>> ELSE rs[1].code \o AllCode(Tail(rs))

Assembling == phase \in {"rules", "print", "done"}

\* the program is OP_INIT_RULE <rule> followed by OP_HALT, and get_rules has returned
InitThenHalt ==
    /\ phase \in {"print", "done"}
    /\ Opcodes_(code) = <<OP_INIT_RULE, OP_HALT>>
    /\ code[2].ip = code[1].ip + 9

\* C3 as written: every instruction get_rules has taken is in a rule's code, in
\* recorded order, the OP_HALT it stops at included; the code of the rule of
\* OP_INIT_RULE, OP_HALT is those two instructions.
C3_AppendsEveryVisited ==
    /\ Assembling => Ips(AllCode(rules)) = Ips(SubSeq(code, 1, pos))
    /\ InitThenHalt => Len(rules) = 1 /\ Opcodes_(rules[1].code) = <<OP_INIT_RULE, OP_HALT>>

\* the instructions get_rules has taken, less the OP_HALT it stopped at
TakenBeforeHalt ==
    SubSeq(code, 1, IF pos > 0 /\ code[pos].opcode = OP_HALT THEN pos - 1 ELSE pos)

\* C3 amended: every instruction get_rules has taken before the OP_HALT it stops
\* at is in a rule's code, in recorded order, each rule's code starting at its
\* OP_INIT_RULE; the OP_HALT is appended to no rule, and the code of the rule of
\* OP_INIT_RULE, OP_HALT is the one instruction OP_INIT_RULE.
C3_AppendsUpToHalt ==
    /\ Assembling =>
          /\ Ips(AllCode(rules)) = Ips(TakenBeforeHalt)
          /\ \A r \in 1..Len(rules) : \A j \in 1..Len(rules[r].code) :
                (rules[r].code[j].opcode = OP_INIT_RULE) = (j = 1)
          /\ \A r \in 1..Len(rules) : rules[r].code # <<>>
    /\ InitThenHalt => Len(rules) = 1 /\ Opcodes_(rules[1].code) = <<OP_INIT_RULE>>

\* the rule of OP_INIT_RULE, OP_HALT has been printed
C3_Witness ==
    /\ InitThenHalt
    /\ phase = "done"
    /\ Len(printed) = 1
    /\ Len(printed[1].asm) = 1

\* the classes the code raises for a damaged file: relocate's 'Invalid file',
\* a bad opcode, a read beyond the buffer
StructuralErrors == {"RuntimeError", "ValueError", "struct.error"}

\* C4: when the first recorded instruction is neither OP_INIT_RULE nor OP_HALT,
\* get_rules ends in the error the other structural errors end in, with no rule.
C4_InstructionBeforeRule ==
    (TraversalComplete /\ pos > 0 /\ code[1].opcode \notin {OP_INIT_RULE, OP_HALT}) =>
        /\ phase = "failed"
        /\ error \in StructuralErrors
        /\ rules = <<>>

\* C5: an OP_PUSH whose 8-byte immediate lies in the image is recorded whatever
\* the string lookup at the immediate does, with successor address + 9.
C5_PushNeverFails ==
    \A k \in 1..Len(decodes) :
        (Fits(data, decodes[k], 1 + ImmSize) /\ data[decodes[k] + 1] = OP_PUSH) =>
            \E i \in 1..Len(code) :
                code[i].ip = decodes[k] /\ code[i].next = <<decodes[k] + 9>>

\* C6: a run that ends in an error has printed no rule.
C6_AllOrNothing == error # "none" => printed = <<>>

\* C7: the relocator applied again with the same table leaves the buffer as the
\* first application left it.
C7_RelocateIdempotent == phase = "reloc2" => data = pass1

\* both passes ran over a table of two overlapping slots, and the first patched
C7_Witness ==
    /\ phase = "reloc2"
    /\ body = Words(<<0, 1>>) \o Terminator
    /\ \E i \in 1..Len(pass1) : pass1[i] = 0

\* C8: a conditional jump at a with operand t is recorded with the successors
\* <<t, a + 9>> and no argument.
C8_JumpSuccessors ==
    \A i \in 1..Len(code) :
        code[i].opcode \in JumpOps =>
            /\ code[i].next = <<Off(Slice(data, code[i].ip + 1, ImmSize)), code[i].ip + 9>>
            /\ code[i].args = <<>>

\* what get_code would return as the successors of the instruction at ip
Successors(ip) ==
    LET r == get_code(data, <<>>, ip)
    IN  IF r.err = "none" THEN {r.val.next[j] : j \in 1..Len(r.val.next)} ELSE {}

RECURSIVE ReachFrom(_, _)
ReachFrom(frontier, seen) ==
    IF frontier \subseteq seen THEN seen
    ELSE ReachFrom(UNION {Successors(x) : x \in frontier \ seen}, seen \cup frontier)

\* the instructions reachable from ip along successors, ip included
Reach(ip) == {x \in ReachFrom({ip}, {}) : get_code(data, <<>>, x).err = "none"}

IndexOf(ip) == CHOOSE i \in 1..Len(code) : code[i].ip = ip

\* the instruction recorded right after a conditional jump is the second entry
\* of its successor list, unless that address was recorded before
AfterJumpFallThrough ==
    \A i \in 1..(Len(code) - 1) :
        code[i].opcode \in JumpOps =>
            \/ code[i + 1].ip = code[i].next[2]
            \/ \E k \in 1..i : code[k].ip = code[i].next[2]

\* the map iterates in the order of the decodes (the last decode may have raised)
MapInRecordedOrder ==
    \/ Ips(code) = decodes
    \/ phase = "failed" /\ Ips(code) = SubSeq(decodes, 1, Len(decodes) - 1)

\* C9 as written: after a conditional jump its fall-through is recorded next
\* (unless recorded already), and its taken target is recorded only after
\* everything reachable from the fall-through has been recorded; the map
\* iterates in recorded order.
C9_TargetAfterFallThrough ==
    /\ AfterJumpFallThrough
    /\ MapInRecordedOrder
    /\ \A i \in 1..Len(code) :
          (code[i].opcode \in JumpOps /\ \E j \in (i + 1)..Len(code) : code[j].ip = code[i].next[1]) =>
              \A x \in Reach(code[i].next[2]) \ {code[i].next[1]} :
                  \E k \in 1..Len(code) : code[k].ip = x /\ k < IndexOf(code[i].next[1])

\* a turn of the loop takes the last entry and leaves the others where they are;
\* it appends the successors of the instruction it recorded, in their order
StackDiscipline ==
    (phase = "parse" /\ phase' # "failed") =>
        \/ code' = code /\ todo' = SubSeq(todo, 1, Len(todo) - 1)
        \/ /\ Len(code') = Len(code) + 1
           /\ code'[Len(code')].ip = todo[Len(todo)]
           /\ todo' = SubSeq(todo, 1, Len(todo) - 1) \o code'[Len(code')].next

\* C9 amended: the work structure is a stack; a conditional jump's successors
\* are appended target first, so the instruction recorded next is the second
\* entry of its successor list (unless recorded already), and the target's
\* entry is taken only after every entry above it; the target itself may be
\* recorded earlier, among what is reachable from the fall-through.  The map
\* iterates in recorded order.
C9_StackOrder ==
    /\ [](AfterJumpFallThrough /\ MapInRecordedOrder)
    /\ [][StackDiscipline]_vars

\* a jump, then its second successor, then (later) its target
C9_Witness ==
    /\ phase = "done"
    /\ \E i \in 1..(Len(code) - 1) :
          /\ code[i].opcode \in JumpOps
          /\ code[i + 1].ip = code[i].next[2]
          /\ \E j \in (i + 2)..Len(code) : code[j].ip = code[i].next[1]

DecodedOnce == \A i, j \in 1..Len(decodes) : decodes[i] = decodes[j] => i = j

\* a recorded address taken from the stack is skipped: nothing recorded, nothing pushed
SkipsRecorded ==
    (phase = "parse" /\ Recorded(code, todo[Len(todo)]) /\ phase' # phase) =>
        (code' = code /\ todo' = SubSeq(todo, 1, Len(todo) - 1))

====
